---- MODULE Spec2Model ----
(***************************************************************************)
(* A model of the Gitlepy repository engine (src/gitlepy/repository.py):   *)
(* the object store, the index, branch references and HEAD, the working    *)
(* directory, and the operations add / remove / commit / branch /          *)
(* checkout / reset / merge, including the line-level conflict writer.     *)
(*                                                                         *)
(* A file's content is a sequence of lines; every line is a string that    *)
(* carries its terminating "\n".  Commit ids are the naturals 1, 2, ... in *)
(* order of creation (the code's ids are SHA-1 digests, unique per         *)
(* commit); the empty parent id "" is NoCommit.  A blob id is the digest   *)
(* of the content and digests are taken to be collision free, so a blob id *)
(* is represented by the content it names.                                 *)
(***************************************************************************)
EXTENDS Integers, Sequences, FiniteSets, TLC

(* ------------------------------ bounds --------------------------------- *)
MaxCommits == 4
MaxEdits == 2
MaxLines == 3

(* --------------------------- small domains ----------------------------- *)
Files == {"a.txt", "b.txt"}
BranchNames == {"main", "dev"}
FakeBranch == "fake"
NoCommit == 0

Hi == "Hi\n"
Hello == "Hello, gitlepy.\n"
\* What the user may write into a file of the working directory.
EditContents(f) == IF f = "a.txt" THEN {<<Hi>>, <<Hi, Hello>>} ELSE {<<Hi>>}

(* ------------------------------ state ---------------------------------- *)
VARIABLES
    commits,    \* commit id -> [parent_one, parent_two, message, blobs]
    branches,   \* branch name -> commit id        (.gitlepy/refs/*)
    HEAD,       \* name of the current branch      (.gitlepy/HEAD)
    additions,  \* index: filename -> blob id
    removals,   \* index: set of filenames
    work,       \* working directory: filename -> content
    blobs,      \* ids of the stored blobs         (.gitlepy/blobs/*)
    out,        \* what the last operation was and what it reported
    edits,      \* number of direct changes to working files or refs so far
    lm          \* the line merge under test: [head, target, id, result]

vars == <<commits, branches, HEAD, additions, removals, work, blobs, out, edits, lm>>
repo == <<commits, branches, HEAD, additions, removals, work, blobs>>

(* ------------------------- finite maps --------------------------------- *)
Empty == <<>>
Put(f, k, v) == [x \in (DOMAIN f) \cup {k} |-> IF x = k THEN v ELSE f[x]]
Drop(f, ks) == [x \in (DOMAIN f) \ ks |-> f[x]]
Update(f, g) == [x \in (DOMAIN f) \cup (DOMAIN g) |-> IF x \in DOMAIN g THEN g[x] ELSE f[x]]

(* The repository as one record, so that an operation that calls others    *)
(* is the composition of their effects.  msg is the last line printed and  *)
(* err the exception that ended the operation ("" when it returned).       *)
St == [commits |-> commits, branches |-> branches, HEAD |-> HEAD,
       additions |-> additions, removals |-> removals, work |-> work,
       blobs |-> blobs, msg |-> "", err |-> ""]

print(s, text) == [s EXCEPT !.msg = text]
raise(s, exc) == [s EXCEPT !.err = exc]

(* ------------------------- object store -------------------------------- *)
BlobId(content) == content
BlobContent(id) == id

(* Path.read_text(): text mode with universal newlines, "\r\n" and "\r"    *)
(* are read as "\n".  Path.write_text() writes "\n" unchanged.             *)
UniversalNewline(line) ==
    CASE line = "Hi\r\n" -> Hi
      [] line = "Hello, gitlepy.\r\n" -> Hello
      [] OTHER -> line
read_text(content) == [i \in 1..Len(content) |-> UniversalNewline(content[i])]

get_blobs(s, commit_id) == s.commits[commit_id].blobs
current_branch(s) == s.HEAD
head_commit_id(s) == s.branches[s.HEAD]
get_branch_head(s, branch) == s.branches[branch]
working_files(s) == DOMAIN s.work
NextId(s) == Cardinality(DOMAIN s.commits) + 1

(* ------------------------------ index ---------------------------------- *)
\* Mutant of stage: a mark for removal is left in place.
stage_keeps_removal(s, filename, blob_id) ==
    [s EXCEPT !.additions = Put(s.additions, filename, blob_id)]

stage(s, filename, blob_id) ==
    [s EXCEPT !.additions = Put(s.additions, filename, blob_id),
              !.removals = s.removals \ {filename}]
unstage(s, filename) == [s EXCEPT !.additions = Drop(s.additions, {filename})]
index_remove(s, filename) ==
    [s EXCEPT !.additions = Drop(s.additions, {filename}),
              !.removals = s.removals \cup {filename}]
clear(s) == [s EXCEPT !.additions = Empty, !.removals = {}]
is_staged(s, filename) == filename \in DOMAIN s.additions

(* ------------------------ status computations -------------------------- *)
cmp_blobs(s, filename, blob_id) == s.work[filename] = BlobContent(blob_id)

unstaged_deletion(s, filename) ==
    filename \notin working_files(s) /\ filename \notin s.removals

diff_from_staged(s, filename) ==
    IF filename \in DOMAIN s.additions
    THEN ~cmp_blobs(s, filename, s.additions[filename])
    ELSE FALSE

unstaged_tracked_modification(s, filename, tracked_blobs) ==
    IF filename \notin DOMAIN s.additions
    THEN ~cmp_blobs(s, filename, tracked_blobs[filename])
    ELSE FALSE

\* Mutant of unstaged_modifications: deleted files are not reported.
unstaged_modifications_no_deletions(s) ==
    LET tracked_blobs == get_blobs(s, head_commit_id(s))
    IN  {<<f, "modified">> : f \in {g \in DOMAIN tracked_blobs :
              /\ g \in working_files(s)
              /\ \/ diff_from_staged(s, g)
                 \/ unstaged_tracked_modification(s, g, tracked_blobs)}}
        \cup
        {<<f, "modified">> : f \in {g \in (DOMAIN s.additions) \ (DOMAIN tracked_blobs) :
              g \in working_files(s) /\ ~cmp_blobs(s, g, s.additions[g])}}

unstaged_modifications(s) ==
    LET tracked_blobs == get_blobs(s, head_commit_id(s))
    IN  {<<f, "deleted">> : f \in {g \in DOMAIN tracked_blobs : unstaged_deletion(s, g)}}
        \cup
        {<<f, "modified">> : f \in {g \in DOMAIN tracked_blobs :
              /\ ~unstaged_deletion(s, g)
              /\ g \in working_files(s)
              /\ \/ diff_from_staged(s, g)
                 \/ unstaged_tracked_modification(s, g, tracked_blobs)}}
        \cup
        {<<f, "deleted">> : f \in {g \in (DOMAIN s.additions) \ (DOMAIN tracked_blobs) :
              g \notin working_files(s)}}
        \cup
        {<<f, "modified">> : f \in {g \in (DOMAIN s.additions) \ (DOMAIN tracked_blobs) :
              g \in working_files(s) /\ ~cmp_blobs(s, g, s.additions[g])}}

\* Mutant of untracked_files: files marked for removal are not looked at.
untracked_files_no_removals(s) ==
    LET tracked_files == (DOMAIN get_blobs(s, head_commit_id(s))) \cup (DOMAIN s.additions)
    IN  {f \in working_files(s) : f \notin tracked_files}

untracked_files(s) ==
    LET tracked_files == (DOMAIN get_blobs(s, head_commit_id(s))) \cup (DOMAIN s.additions)
    IN  {f \in working_files(s) : f \notin tracked_files \/ f \in s.removals}

(* ------------------------------ commit --------------------------------- *)
\* Mutant of update_branch_head: the commit id is written to every ref.
update_branch_head_every_ref(s, branch, commit_id) ==
    [s EXCEPT !.branches = [b \in (DOMAIN s.branches) \cup {branch} |-> commit_id]]

update_branch_head(s, branch, commit_id) ==
    [s EXCEPT !.branches = Put(s.branches, branch, commit_id)]

Commit(parent, message, merge_parent) ==
    [parent_one |-> parent, parent_two |-> merge_parent,
     message |-> message, blobs |-> Empty]

\* Mutant of new_commit: the index is not cleared after the commit.
new_commit_keeps_index(s, parent, message, merge_parent) ==
    LET c == Commit(parent, message, merge_parent)
        id == NextId(s)
    IN  IF parent = NoCommit
        THEN update_branch_head([s EXCEPT !.commits = Put(s.commits, id, c)],
                                current_branch(s), id)
        ELSE IF s.additions = Empty /\ s.removals = {}
        THEN raise(print(s, "No changes staged for commit."), "SystemExit")
        ELSE LET cb == Update(Drop(get_blobs(s, parent), s.removals), s.additions)
                 s2 == [s EXCEPT !.commits = Put(s.commits, id, [c EXCEPT !.blobs = cb])]
             IN  update_branch_head(s2, current_branch(s2), id)

\* Mutant of new_commit: the index is not looked at before the commit.
new_commit_unchecked(s, parent, message, merge_parent) ==
    LET c == Commit(parent, message, merge_parent)
        id == NextId(s)
        cb == IF parent = NoCommit THEN Empty
              ELSE Update(Drop(get_blobs(s, parent), s.removals), s.additions)
        s1 == clear(s)
        s2 == [s1 EXCEPT !.commits = Put(s1.commits, id, [c EXCEPT !.blobs = cb])]
    IN  update_branch_head(s2, current_branch(s2), id)

\* Mutant of new_commit: the parent is written back with the blobs of the
\* child, which were built in the parent's dictionary.
new_commit_rewrites_parent(s, parent, message, merge_parent) ==
    LET c == Commit(parent, message, merge_parent)
        id == NextId(s)
    IN  IF parent = NoCommit
        THEN update_branch_head([s EXCEPT !.commits = Put(s.commits, id, c)],
                                current_branch(s), id)
        ELSE IF s.additions = Empty /\ s.removals = {}
        THEN raise(print(s, "No changes staged for commit."), "SystemExit")
        ELSE LET cb == Update(Drop(get_blobs(s, parent), s.removals), s.additions)
                 s1 == clear(s)
                 s2 == [s1 EXCEPT !.commits =
                           Put(Put(s1.commits, parent, [s1.commits[parent] EXCEPT !.blobs = cb]),
                               id, [c EXCEPT !.blobs = cb])]
             IN  update_branch_head(s2, current_branch(s2), id)

new_commit(s, parent, message, merge_parent) ==
    LET c == Commit(parent, message, merge_parent)
        id == NextId(s)
    IN  IF parent = NoCommit
        THEN update_branch_head([s EXCEPT !.commits = Put(s.commits, id, c)],
                                current_branch(s), id)
        ELSE IF s.additions = Empty /\ s.removals = {}
        THEN raise(print(s, "No changes staged for commit."), "SystemExit")
        ELSE LET cb == Update(Drop(get_blobs(s, parent), s.removals), s.additions)
                 s1 == clear(s)
                 s2 == [s1 EXCEPT !.commits = Put(s1.commits, id, [c EXCEPT !.blobs = cb])]
             IN  update_branch_head(s2, current_branch(s2), id)

(* ------------------------------- add ----------------------------------- *)
\* Mutant of add: a file that is back to its committed content stays staged.
add_never_unstages(s, filename) ==
    LET new_blob == BlobId(s.work[filename])
        head_commit == s.commits[head_commit_id(s)]
    IN  IF filename \in DOMAIN head_commit.blobs /\ new_blob = head_commit.blobs[filename]
        THEN print(s, "No changes have been made to that file.")
        ELSE IF filename \in DOMAIN s.additions /\ new_blob = s.additions[filename]
        THEN print(s, "File is already staged in present state.")
        ELSE LET s1 == stage(s, filename, new_blob)
             IN  [s1 EXCEPT !.blobs = s1.blobs \cup {new_blob}]

add(s, filename) ==
    LET new_blob == BlobId(s.work[filename])
        head_commit == s.commits[head_commit_id(s)]
    IN  IF filename \in DOMAIN head_commit.blobs /\ new_blob = head_commit.blobs[filename]
        THEN IF is_staged(s, filename)
             THEN unstage(s, filename)
             ELSE print(s, "No changes have been made to that file.")
        ELSE IF filename \in DOMAIN s.additions /\ new_blob = s.additions[filename]
        THEN print(s, "File is already staged in present state.")
        ELSE LET s1 == stage(s, filename, new_blob)
             IN  [s1 EXCEPT !.blobs = s1.blobs \cup {new_blob}]

(* ------------------------------ remove --------------------------------- *)
\* Mutant of remove: the working file of a tracked file is left in place.
remove_keeps_file(s, filename) ==
    IF filename \in s.removals
    THEN print(s, "That file is already staged for removal.")
    ELSE IF filename \in DOMAIN s.additions
    THEN unstage(s, filename)
    ELSE IF filename \in DOMAIN get_blobs(s, head_commit_id(s))
    THEN index_remove(s, filename)
    ELSE print(s, "No reason to remove the file.")

remove(s, filename) ==
    IF filename \in s.removals
    THEN print(s, "That file is already staged for removal.")
    ELSE IF filename \in DOMAIN s.additions
    THEN unstage(s, filename)
    ELSE IF filename \in DOMAIN get_blobs(s, head_commit_id(s))
    THEN LET s1 == index_remove(s, filename)
         IN  [s1 EXCEPT !.work = Drop(s1.work, {filename})]
    ELSE print(s, "No reason to remove the file.")

(* --------------------------- commit ids -------------------------------- *)
\* A commit id is a digest; an abbreviation is a proper prefix of one.
Digest == <<"a1", "b2", "a3", "b4", "a5", "b6", "a7">>
Prefix == <<"a", "b", "a", "b", "a", "b", "a">>
Abbreviations == {"a", "b"}
Ambiguous == -1
startswith(id, target) == target = Digest[id] \/ target = Prefix[id]

\* Mutant of match_commit_id: of several matches the first one is taken.
match_commit_id_first(s, target) ==
    IF \E id \in DOMAIN s.commits : Digest[id] = target
    THEN CHOOSE id \in DOMAIN s.commits : Digest[id] = target
    ELSE IF target \in Abbreviations
    THEN LET matches == {id \in DOMAIN s.commits : startswith(id, target)}
         IN  IF matches # {} THEN CHOOSE id \in matches : \A other \in matches : id <= other
             ELSE NoCommit
    ELSE NoCommit

match_commit_id(s, target) ==
    IF \E id \in DOMAIN s.commits : Digest[id] = target
    THEN CHOOSE id \in DOMAIN s.commits : Digest[id] = target
    ELSE IF target \in Abbreviations
    THEN LET matches == {id \in DOMAIN s.commits : startswith(id, target)}
         IN  IF Cardinality(matches) > 1 THEN Ambiguous
             ELSE IF Cardinality(matches) = 1 THEN CHOOSE id \in matches : TRUE
             ELSE NoCommit
    ELSE NoCommit

(* ----------------------------- checkout -------------------------------- *)
checkout_file(s, filename, target) ==
    LET commit_id == IF target = "" THEN head_commit_id(s) ELSE match_commit_id(s, target)
    IN  IF commit_id = Ambiguous
        THEN raise(print(s, "Ambiguous commit abbreviation."), "SystemExit")
        ELSE IF commit_id = NoCommit
        THEN raise(print(s, target \o " is not a valid commit."), "UnboundLocalError")
        ELSE IF filename \notin DOMAIN get_blobs(s, commit_id)
        THEN print(s, filename \o " is not a valid file.")
        ELSE [s EXCEPT !.work = Put(s.work, filename,
                                    read_text(BlobContent(get_blobs(s, commit_id)[filename])))]

\* Mutant of checkout_commit: the ref of the current branch is not rewritten.
checkout_commit_keeps_ref(s, old_head_id, target_id, unlinked) ==
    LET target_blobs == get_blobs(s, target_id)
        current_blobs == get_blobs(s, old_head_id)
        doomed == (DOMAIN current_blobs) \ (DOMAIN target_blobs)
    IN  IF doomed \subseteq DOMAIN s.work
        THEN clear([s EXCEPT !.work = Update(Drop(s.work, doomed),
                      [f \in DOMAIN target_blobs |-> read_text(BlobContent(target_blobs[f]))])])
        ELSE raise([s EXCEPT !.work = Drop(s.work, unlinked \cap doomed)], "FileNotFoundError")

\* unlinked: the files the deletion loop passes before it reaches a file
\* that is already gone (Path.unlink raises there); the loop follows the
\* dictionary's order, which the model leaves open.
checkout_commit(s, old_head_id, target_id, unlinked) ==
    LET target_blobs == get_blobs(s, target_id)
        current_blobs == get_blobs(s, old_head_id)
        doomed == (DOMAIN current_blobs) \ (DOMAIN target_blobs)
    IN  IF doomed \subseteq DOMAIN s.work
        THEN LET s1 == [s EXCEPT !.work = Update(Drop(s.work, doomed),
                          [f \in DOMAIN target_blobs |-> read_text(BlobContent(target_blobs[f]))])]
                 s2 == update_branch_head(s1, current_branch(s1), target_id)
             IN  clear(s2)
        ELSE raise([s EXCEPT !.work = Drop(s.work, unlinked \cap doomed)], "FileNotFoundError")

\* Mutant of checkout_branch: unstaged modifications are not looked for.
checkout_branch_unchecked(s, target, unlinked) ==
    LET s0 == IF target \notin DOMAIN s.branches
              THEN print(s, target \o " is not a valid branch name.") ELSE s
    IN  IF target = current_branch(s0)
        THEN print(s0, "Already on '" \o target \o "'")
        ELSE LET old_head == head_commit_id(s0)
                 s1 == [s0 EXCEPT !.HEAD = target]
             IN  IF target \notin DOMAIN s1.branches
                 THEN raise(s1, "AssertionError")
                 ELSE checkout_commit(s1, old_head, get_branch_head(s1, target), unlinked)

checkout_branch(s, target, unlinked) ==
    LET s0 == IF target \notin DOMAIN s.branches
              THEN print(s, target \o " is not a valid branch name.") ELSE s
    IN  IF target = current_branch(s0)
        THEN print(s0, "Already on '" \o target \o "'")
        ELSE IF unstaged_modifications(s0) # {}
        THEN print(s0, "There are unstaged modifications in the way; stage and commit them.")
        ELSE LET old_head == head_commit_id(s0)
                 s1 == [s0 EXCEPT !.HEAD = target]
             IN  IF target \notin DOMAIN s1.branches
                 THEN raise(s1, "AssertionError")
                 ELSE checkout_commit(s1, old_head, get_branch_head(s1, target), unlinked)

\* Mutant of reset: an id that matches no commit is written to the ref.
reset_unresolved(s, target_id, unlinked) ==
    LET target_commit_id == match_commit_id(s, target_id)
    IN  IF target_commit_id = Ambiguous
        THEN raise(print(s, "Ambiguous commit abbreviation."), "SystemExit")
        ELSE IF target_commit_id = NoCommit
        THEN update_branch_head(s, current_branch(s), NoCommit)
        ELSE LET s1 == checkout_commit(s, head_commit_id(s), target_commit_id, unlinked)
             IN  IF s1.err # "" THEN s1
                 ELSE update_branch_head(s1, current_branch(s1), target_commit_id)

reset(s, target_id, unlinked) ==
    LET target_commit_id == match_commit_id(s, target_id)
    IN  IF target_commit_id = Ambiguous
        THEN raise(print(s, "Ambiguous commit abbreviation."), "SystemExit")
        ELSE IF target_commit_id = NoCommit
        THEN print(s, "No commit with that id exists.")
        ELSE LET s1 == checkout_commit(s, head_commit_id(s), target_commit_id, unlinked)
             IN  IF s1.err # "" THEN s1
                 ELSE update_branch_head(s1, current_branch(s1), target_commit_id)

(* ----------------------------- history --------------------------------- *)
Range(seq) == {seq[i] : i \in DOMAIN seq}

RECURSIVE history_loop(_, _, _)
history_loop(s, q, hist) ==
    IF q = <<>> THEN hist
    ELSE LET current_id == Head(q)
             current_commit == s.commits[current_id]
         IN  IF current_id \in Range(hist)
             THEN history_loop(s, Tail(q), hist)
             ELSE history_loop(s,
                      Tail(q)
                        \o (IF current_commit.parent_two # NoCommit
                            THEN <<current_commit.parent_two>> ELSE <<>>)
                        \o (IF current_commit.parent_one # NoCommit
                            THEN <<current_commit.parent_one>> ELSE <<>>),
                      Append(hist, current_id))

\* Mutant of history: an id is listed every time it leaves the queue.
RECURSIVE history_loop_every_visit(_, _, _)
history_loop_every_visit(s, q, hist) ==
    IF q = <<>> THEN hist
    ELSE LET current_id == Head(q)
             current_commit == s.commits[current_id]
         IN  history_loop_every_visit(s,
                      Tail(q)
                        \o (IF current_commit.parent_two # NoCommit
                            THEN <<current_commit.parent_two>> ELSE <<>>)
                        \o (IF current_commit.parent_one # NoCommit
                            THEN <<current_commit.parent_one>> ELSE <<>>),
                      Append(hist, current_id))

history_every_visit(s, head_id) == history_loop_every_visit(s, <<head_id>>, <<>>)

history(s, head_id) == history_loop(s, <<head_id>>, <<>>)

RECURSIVE find_split_loop(_, _, _)
find_split_loop(current_history, target_history, i) ==
    IF i > Len(target_history) THEN NoCommit
    ELSE IF target_history[i] \in Range(current_history) THEN target_history[i]
    ELSE find_split_loop(current_history, target_history, i + 1)

\* Mutant of find_split: the first id of the target history is returned
\* without looking it up in the current history.
find_split_first(current_history, target_history) ==
    IF target_history = <<>> THEN NoCommit ELSE target_history[1]

find_split(current_history, target_history) ==
    find_split_loop(current_history, target_history, 1)

(* ---------------------------- line merge ------------------------------- *)
start_diff == "<<<<<<< HEAD\n"
mid_diff == "=======\n"
end_diff(commit_id) == ">>>>>>> " \o commit_id \o "\n"

\* Python compares lines by code point; LineOrder lists the lines of the
\* model in that order.
A == "A\n"
B == "B\n"
C == "C\n"
\* The last line of a file that does not end with a line terminator is
\* the same text without "\n".
NoNewline(line) ==
    CASE line = A -> "A"
      [] line = B -> "B"
      [] line = C -> "C"
      [] OTHER -> line
LineOrder == <<start_diff, mid_diff,
               end_diff("a1"), end_diff("a3"), end_diff("a5"), end_diff("a7"),
               end_diff("b2"), end_diff("b4"), end_diff("b6"),
               NoNewline(A), A, NoNewline(B), B, NoNewline(C), C, Hello, Hi>>
Rank(line) == CHOOSE i \in DOMAIN LineOrder : LineOrder[i] = line
LineLess(x, y) == Rank(x) < Rank(y)

RECURSIVE insert_sorted(_, _)
insert_sorted(line, sorted_lines) ==
    IF sorted_lines = <<>> THEN <<line>>
    ELSE IF LineLess(Head(sorted_lines), line)
    THEN <<Head(sorted_lines)>> \o insert_sorted(line, Tail(sorted_lines))
    ELSE <<line>> \o sorted_lines

RECURSIVE sorted(_)
sorted(lines) ==
    IF lines = <<>> THEN <<>> ELSE insert_sorted(Head(lines), sorted(Tail(lines)))

RECURSIVE binsearch(_, _)
binsearch(line, all_lines) ==
    IF Len(all_lines) - 1 >= 0
    THEN LET mid == ((Len(all_lines) - 1) \div 2) + 1
         IN  IF line = all_lines[mid] THEN TRUE
             ELSE IF LineLess(line, all_lines[mid])
             THEN binsearch(line, SubSeq(all_lines, 1, mid - 1))
             ELSE binsearch(line, SubSeq(all_lines, mid + 1, Len(all_lines)))
    ELSE FALSE

\* A file object is the sequence of its lines and a position, counted in
\* lines read; readline() at the end of the file returns "".
readline(f, pos) == IF pos < Len(f) THEN f[pos + 1] ELSE ""
advance(f, pos) == IF pos < Len(f) THEN pos + 1 ELSE pos
\* Mutant of readlines: the rest of the file is taken one line too late.
readlines_skip_one(f, pos) == SubSeq(f, pos + 2, Len(f))
readlines(f, pos) == SubSeq(f, pos + 1, Len(f))

RECURSIVE binsearch_scan(_, _, _)
binsearch_scan(f1, pos1, sorted_f2) ==
    IF readline(f1, pos1) = "" THEN 0
    ELSE IF binsearch(readline(f1, pos1), sorted_f2) THEN pos1
    ELSE binsearch_scan(f1, advance(f1, pos1), sorted_f2)

binsearch_lines(f1, pos1, f2, pos2) == binsearch_scan(f1, pos1, sorted(readlines(f2, pos2)))

\* The state of write_conflict: the two files with their positions, the
\* saved positions seek1 and seek2, the current lines, and what has been
\* written to the temporary file.
write(m, text) == IF text = "" THEN m ELSE [m EXCEPT !.temp = Append(m.temp, text)]
write_all(m, lines) == [m EXCEPT !.temp = m.temp \o lines]
read1(m) == [m EXCEPT !.line1 = readline(m.f1, m.pos1), !.pos1 = advance(m.f1, m.pos1)]
read2(m) == [m EXCEPT !.line2 = readline(m.f2, m.pos2), !.pos2 = advance(m.f2, m.pos2)]
\* temp.write(end_diff)
write_end(m) == write(m, end_diff(m.commit_id))
\* Mutant of rewind2: f2 is not set back to seek2 before the line is read.
rewind2_no_seek(m) == read2(m)

\* f2.seek(seek2); line2 = f2.readline()
rewind2(m) == read2([m EXCEPT !.pos2 = m.seek2])
\* seek1 = f1.tell(); seek2 = f2.tell(); line1 = f1.readline(); line2 = f2.readline()
next_lines(m) == read2(read1([m EXCEPT !.seek1 = m.pos1, !.seek2 = m.pos2]))

\* Mutant of copy_insertion: the lines read from f2 are not written.
RECURSIVE copy_insertion_drops(_)
copy_insertion_drops(m) ==
    IF m.line1 = m.line2 THEN m ELSE copy_insertion_drops(read2(m))

\* while line1 != line2: temp.write(line2); line2 = f2.readline()
RECURSIVE copy_insertion(_)
copy_insertion(m) ==
    IF m.line1 = m.line2 THEN m ELSE copy_insertion(read2(write(m, m.line2)))

\* while line1 != line2: temp.write(line2); seek2 = f2.tell(); line2 = f2.readline()
RECURSIVE copy_to_match(_)
copy_to_match(m) ==
    IF m.line1 = m.line2 THEN m
    ELSE copy_to_match(read2([write(m, m.line2) EXCEPT !.seek2 = m.pos2]))

\* The scan of f2 for a later line equal to line1; found tells whether the
\* insertion block was written.
RECURSIVE scan_target(_)
scan_target(m) ==
    IF m.line2 = "" THEN [m EXCEPT !.found = FALSE]
    ELSE LET n == read2(m)
         IN  IF n.line1 = n.line2
             THEN [write_end(copy_insertion(write(write(rewind2(n), start_diff), mid_diff)))
                      EXCEPT !.found = TRUE]
             ELSE scan_target(n)

\* while line1: line1 = f1.readline(); temp.write(line1)
RECURSIVE trailing_head(_)
trailing_head(m) ==
    IF m.line1 = "" THEN m ELSE LET n == read1(m) IN trailing_head(write(n, n.line1))

\* while line2: line2 = f1.readline(); temp.write(line2)
RECURSIVE trailing_target(_)
trailing_target(m) ==
    IF m.line2 = "" THEN m
    ELSE LET n == [m EXCEPT !.line2 = readline(m.f1, m.pos1), !.pos1 = advance(m.f1, m.pos1)]
         IN  trailing_target(write(n, n.line2))

trailing(m) ==
    IF m.line1 # "" THEN trailing_head(write(m, m.line1))
    ELSE IF m.line2 # ""
    THEN write_end(trailing_target(write(write(write(m, start_diff), mid_diff), m.line2)))
    ELSE m

\* A line of f1 matches line2: the lines of f1 before it and the lines of
\* f2 up to the match make a conflict block.
matched_diff(m, match_byte) ==
    LET n1 == write(m, start_diff)
        n2 == write_all(n1, SubSeq(m.f1, m.seek1 + 1, match_byte))
        n3 == write(n2, mid_diff)
        n4 == read1([n3 EXCEPT !.seek1 = match_byte, !.pos1 = match_byte])
    IN  write_end(copy_to_match(n4))

\* Mutant of finish_diff: f1 is not set back to seek1, the head side of
\* the block starts after the current line.
finish_diff_no_seek(m) ==
    LET n1 == write(m, start_diff)
        n2 == write_all(n1, readlines(m.f1, m.pos1))
        n3 == write(n2, mid_diff)
        n4 == write_all(n3, readlines(m.f2, m.seek2))
    IN  [write_end(n4) EXCEPT !.pos1 = Len(m.f1), !.pos2 = Len(m.f2),
                              !.line1 = "", !.line2 = ""]

\* No more matching lines: the rest of both files makes the last block.
finish_diff(m) ==
    LET n1 == write(m, start_diff)
        n2 == write_all(n1, readlines(m.f1, m.seek1))
        n3 == write(n2, mid_diff)
        n4 == write_all(n3, readlines(m.f2, m.seek2))
    IN  [write_end(n4) EXCEPT !.pos1 = Len(m.f1), !.pos2 = Len(m.f2),
                              !.line1 = "", !.line2 = ""]

RECURSIVE main_loop(_)
\* m: the state after f2 was reset to seek2 and line2 read again.
search_head(m, match_byte) ==
    IF match_byte > 0 THEN main_loop(matched_diff(m, match_byte)) ELSE finish_diff(m)

\* m: the state after the scan of f2 for line1.
after_scan(m) ==
    IF m.found THEN main_loop(m)
    ELSE search_head(rewind2(m),
                     binsearch_lines(m.f1, m.pos1, m.f2, advance(m.f2, m.seek2)))

main_loop(m) ==
    IF m.line1 = "" \/ m.line2 = "" THEN m
    ELSE IF m.line1 = m.line2 THEN main_loop(next_lines(write(m, m.line1)))
    ELSE after_scan(scan_target(m))

write_conflict(head_file, target_blob, commit_id) ==
    LET m0 == [f1 |-> head_file, f2 |-> target_blob, commit_id |-> commit_id,
               pos1 |-> 0, pos2 |-> 0, seek1 |-> 0, seek2 |-> 0,
               line1 |-> "", line2 |-> "", temp |-> <<>>, found |-> FALSE]
    IN  trailing(main_loop(read2(read1(m0)))).temp

(* ------------------------------- merge --------------------------------- *)
\* Mutant of validate_merge: the check against merging a branch with
\* itself is missing.
validate_merge_no_self_check(s, target) ==
    IF unstaged_modifications(s) # {}
    THEN "There is a file with unstaged changes; delete it, or add and commit it first."
    ELSE IF s.additions # Empty \/ s.removals # {}
    THEN "You have uncommitted changes."
    ELSE IF target \notin DOMAIN s.branches
    THEN "A branch with that name does not exist."
    ELSE ""

validate_merge(s, target) ==
    IF unstaged_modifications(s) # {}
    THEN "There is a file with unstaged changes; delete it, or add and commit it first."
    ELSE IF s.additions # Empty \/ s.removals # {}
    THEN "You have uncommitted changes."
    ELSE IF target = current_branch(s)
    THEN "Cannot merge a branch with itself."
    ELSE IF target \notin DOMAIN s.branches
    THEN "A branch with that name does not exist."
    ELSE ""

\* Mutant of validate_history: the fast-forward test comes first.
validate_history_ff_first(s, target_head, current_history, target_history) ==
    IF head_commit_id(s) \in Range(target_history)
    THEN [cancel |-> TRUE,
          s |-> checkout_commit(print(s, "Current branch is fast-forwarded."),
                                head_commit_id(s), target_head, {})]
    ELSE IF target_head \in Range(current_history)
    THEN [cancel |-> TRUE,
          s |-> print(s, "Target branch is an ancestor of the current branch.")]
    ELSE [cancel |-> FALSE, s |-> s]

\* Returns the state after the check and whether the merge is cancelled.
validate_history(s, target_head, current_history, target_history) ==
    IF target_head \in Range(current_history)
    THEN [cancel |-> TRUE,
          s |-> print(s, "Target branch is an ancestor of the current branch.")]
    ELSE IF head_commit_id(s) \in Range(target_history)
    THEN [cancel |-> TRUE,
          s |-> checkout_commit(print(s, "Current branch is fast-forwarded."),
                                head_commit_id(s), target_head, {})]
    ELSE [cancel |-> FALSE, s |-> s]

\* pm: the state and the list of conflicts gathered so far.
merge_head_target(pm, filename, head_blob_id, target_blob_id, split_blobs) ==
    IF filename \in DOMAIN split_blobs
    THEN IF split_blobs[filename] # target_blob_id
         THEN IF head_blob_id = split_blobs[filename]
              THEN [pm EXCEPT !.s = stage(pm.s, filename, target_blob_id)]
              ELSE IF head_blob_id # target_blob_id
              THEN [pm EXCEPT !.conflicts = pm.conflicts \cup {filename}]
              ELSE pm
         ELSE pm
    ELSE IF head_blob_id # target_blob_id
    THEN [pm EXCEPT !.conflicts = pm.conflicts \cup {filename}]
    ELSE pm

RECURSIVE merge_target_blobs_loop(_, _, _, _, _)
merge_target_blobs_loop(s, files, target_blobs, split_blobs, target_commit_id) ==
    IF files = {} THEN s
    ELSE LET filename == CHOOSE f \in files : TRUE
             target_blob_id == target_blobs[filename]
             s1 == IF filename \notin DOMAIN split_blobs
                   THEN stage(checkout_file(s, filename, Digest[target_commit_id]),
                              filename, target_blob_id)
                   ELSE IF target_blob_id # split_blobs[filename]
                   THEN stage(s, filename, target_blob_id)
                   ELSE s
         IN  merge_target_blobs_loop(s1, files \ {filename}, target_blobs, split_blobs,
                                     target_commit_id)

merge_target_blobs(s, target_blobs, split_blobs, target_commit_id) ==
    merge_target_blobs_loop(s, DOMAIN target_blobs, target_blobs, split_blobs,
                            target_commit_id)

\* Mutant of prepare_merge_loop: a file the target deleted is removed
\* without comparing the head's version with the split's.
RECURSIVE prepare_merge_loop_no_compare(_, _, _, _, _)
prepare_merge_loop_no_compare(pm, files, head_blobs, target_blobs, split_blobs) ==
    IF files = {} THEN pm
    ELSE LET filename == CHOOSE f \in files : TRUE
             head_blob == head_blobs[filename]
             pm1 == IF filename \in DOMAIN target_blobs
                    THEN merge_head_target(pm, filename, head_blob,
                                           target_blobs[filename], split_blobs)
                    ELSE IF filename \in DOMAIN split_blobs
                    THEN LET s1 == index_remove(pm.s, filename)
                         IN  [pm EXCEPT !.s = [s1 EXCEPT !.work = Drop(s1.work, {filename})]]
                    ELSE pm
         IN  prepare_merge_loop_no_compare(pm1, files \ {filename}, head_blobs, target_blobs,
                                           split_blobs)

RECURSIVE prepare_merge_loop(_, _, _, _, _)
prepare_merge_loop(pm, files, head_blobs, target_blobs, split_blobs) ==
    IF files = {} THEN pm
    ELSE LET filename == CHOOSE f \in files : TRUE
             head_blob == head_blobs[filename]
             pm1 == IF filename \in DOMAIN target_blobs
                    THEN merge_head_target(pm, filename, head_blob,
                                           target_blobs[filename], split_blobs)
                    ELSE IF filename \in DOMAIN split_blobs /\ head_blob = split_blobs[filename]
                    THEN LET s1 == index_remove(pm.s, filename)
                         IN  [pm EXCEPT !.s = [s1 EXCEPT !.work = Drop(s1.work, {filename})]]
                    ELSE pm
         IN  prepare_merge_loop(pm1, files \ {filename}, head_blobs, target_blobs, split_blobs)

prepare_merge(s, target_commit_id, split_id) ==
    LET head_blobs == get_blobs(s, head_commit_id(s))
        target_blobs == get_blobs(s, target_commit_id)
        split_blobs == get_blobs(s, split_id)
        pm == prepare_merge_loop([s |-> s, conflicts |-> {}], DOMAIN head_blobs,
                                 head_blobs, target_blobs, split_blobs)
    IN  [pm EXCEPT !.s = merge_target_blobs(pm.s, Drop(target_blobs, DOMAIN head_blobs),
                                            split_blobs, target_commit_id)]

RECURSIVE merge_conflict_loop(_, _, _)
merge_conflict_loop(s, conflicts, target_branch) ==
    IF conflicts = {} THEN s
    ELSE LET filename == CHOOSE f \in conflicts : TRUE
             target_blobs == get_blobs(s, get_branch_head(s, target_branch))
             merged == write_conflict(read_text(s.work[filename]),
                                      read_text(BlobContent(target_blobs[filename])),
                                      Digest[get_branch_head(s, target_branch)])
             s1 == [s EXCEPT !.work = Put(s.work, filename, merged)]
         IN  merge_conflict_loop(add(s1, filename), conflicts \ {filename}, target_branch)

\* s: the state after every file in conflict was written and staged.
merge_conflict_commit(s, target_branch) ==
    LET merge_message == "Merged " \o current_branch(s) \o " into " \o target_branch \o "."
        s2 == new_commit(s, head_commit_id(s), merge_message,
                         get_branch_head(s, target_branch))
    IN  IF s2.err # "" THEN s2 ELSE print(s2, "Encountered a merge conflict.")

merge_conflict(s, conflicts, target_branch) ==
    merge_conflict_commit(merge_conflict_loop(s, conflicts, target_branch), target_branch)

\* s: the state _prepare_merge left, without conflicts.
merge_commit(s, target, target_commit_id) ==
    LET merge_message == "Merged " \o target \o " into " \o current_branch(s)
        s1 == new_commit(s, head_commit_id(s), merge_message, target_commit_id)
    IN  IF s1.err # "" THEN s1 ELSE print(s1, merge_message)

\* pm: what _prepare_merge returned, the state and the conflicts.
merge_prepared(pm, target, target_commit_id) ==
    IF pm.conflicts # {} THEN merge_conflict(pm.s, pm.conflicts, target)
    ELSE merge_commit(pm.s, target, target_commit_id)

\* vh: what _validate_history returned; split_id: what _find_split returned.
merge_histories(s, target, target_commit_id, vh, split_id) ==
    IF vh.cancel THEN vh.s
    ELSE IF split_id = NoCommit THEN print(s, "No common ancestor found.")
    ELSE merge_prepared(prepare_merge(s, target_commit_id, split_id), target, target_commit_id)

merge_validated(s, target, target_commit_id, current_history, target_history) ==
    merge_histories(s, target, target_commit_id,
                    validate_history(s, target_commit_id, current_history, target_history),
                    find_split(current_history, target_history))

merge(s, target) ==
    IF s.HEAD \notin DOMAIN s.branches THEN raise(s, "FileNotFoundError")
    ELSE IF validate_merge(s, target) # "" THEN print(s, validate_merge(s, target))
    ELSE merge_validated(s, target, get_branch_head(s, target),
                         history(s, head_commit_id(s)),
                         history(s, get_branch_head(s, target)))

(* ------------------------------ actions -------------------------------- *)
HeadOk(s) == s.HEAD \in DOMAIN s.branches

Do(op, arg, r) ==
    /\ commits' = r.commits
    /\ branches' = r.branches
    /\ HEAD' = r.HEAD
    /\ additions' = r.additions
    /\ removals' = r.removals
    /\ work' = r.work
    /\ blobs' = r.blobs
    /\ out' = [op |-> op, arg |-> arg, msg |-> r.msg, err |-> r.err]
    /\ edits' = IF op \in {"edit", "delete", "checkout_file", "reset"} THEN edits + 1 ELSE edits
    /\ UNCHANGED lm

\* A commit is created only while the model has room for one.
Room(r) == DOMAIN r.commits = DOMAIN commits \/ NextId(St) <= MaxCommits

\* The user edits or deletes a file of the working directory.  MaxEdits
\* bounds the steps that overwrite working files without going through
\* the index: edits, deletions, checkout_file and reset.
WriteFile(f, c) ==
    /\ edits < MaxEdits
    /\ ~(f \in DOMAIN work /\ work[f] = c)
    /\ Do("edit", "", [St EXCEPT !.work = Put(work, f, c)])

DeleteFile(f) ==
    /\ edits < MaxEdits
    /\ f \in DOMAIN work
    /\ Do("delete", "", [St EXCEPT !.work = Drop(work, {f})])

Add(f) ==
    /\ f \in DOMAIN work
    /\ Do("add", f, IF HeadOk(St) THEN add(St, f) ELSE raise(St, "FileNotFoundError"))

Remove(f) ==
    Do("remove", f, IF HeadOk(St) \/ f \in removals THEN remove(St, f)
                    ELSE raise(St, "FileNotFoundError"))

\* A command that may create a commit.
Step(op, arg, r) == Room(r) /\ Do(op, arg, r)

CommitCmd ==
    Step("commit", "msg",
         IF HeadOk(St) THEN new_commit(St, head_commit_id(St), "msg", NoCommit)
         ELSE raise(St, "FileNotFoundError"))

Branch(name) ==
    /\ HeadOk(St)
    /\ name \notin DOMAIN branches
    /\ Do("branch", name, update_branch_head(St, name, head_commit_id(St)))

CheckoutFile(f, target) ==
    /\ edits < MaxEdits
    /\ Do("checkout_file", f,
          IF target = "" /\ ~HeadOk(St) THEN raise(St, "FileNotFoundError")
          ELSE checkout_file(St, f, target))

\* The files a failing deletion loop may have unlinked before it failed.
Unlinkable(old_head_id, target_id) ==
    LET doomed == (DOMAIN commits[old_head_id].blobs) \ (DOMAIN commits[target_id].blobs)
    IN  IF doomed \subseteq DOMAIN work THEN {{}} ELSE SUBSET (doomed \cap DOMAIN work)

CheckoutBranch(target) ==
    IF HeadOk(St) \/ target = HEAD
    THEN \E unlinked \in (IF HeadOk(St) /\ target \in DOMAIN branches
                          THEN Unlinkable(head_commit_id(St), branches[target])
                          ELSE {{}}) :
            Do("checkout_branch", target, checkout_branch(St, target, unlinked))
    ELSE Do("checkout_branch", target,
            raise(IF target \notin DOMAIN branches
                  THEN print(St, target \o " is not a valid branch name.") ELSE St, "FileNotFoundError"))

Reset(target_id) ==
    LET id == match_commit_id(St, target_id)
    IN  /\ edits < MaxEdits
        /\ IF id \in DOMAIN commits /\ ~HeadOk(St)
           THEN Do("reset", target_id, raise(St, "FileNotFoundError"))
           ELSE \E unlinked \in (IF id \in DOMAIN commits
                                 THEN Unlinkable(head_commit_id(St), id) ELSE {{}}) :
                   Do("reset", target_id, reset(St, target_id, unlinked))

Merge(target) == Step("merge", target, merge(St, target))

\* tests/test_merge.py, test_merge_no_split: HEAD is made to name a new
\* branch and new_commit("", ...) gives it a commit without a parent.
NewRoot ==
    /\ FakeBranch \notin DOMAIN branches
    /\ NextId(St) <= MaxCommits
    /\ Do("new_root", FakeBranch,
          new_commit([St EXCEPT !.HEAD = FakeBranch], NoCommit, "fake commit", NoCommit))

Init ==
    /\ commits = [id \in {1} |-> Commit(NoCommit, "Initial commit.", NoCommit)]
    /\ branches = [b \in {"main"} |-> 1]
    /\ HEAD = "main"
    /\ additions = Empty
    /\ removals = {}
    /\ work = Empty
    /\ blobs = {}
    /\ out = [op |-> "init", arg |-> "", msg |-> "Initializing gitlepy repository.", err |-> ""]
    /\ edits = 0
    /\ lm = Empty

CommitTargets == {Digest[i] : i \in 1..MaxCommits} \cup Abbreviations

Next ==
    \/ \E f \in Files : \E c \in EditContents(f) : WriteFile(f, c)
    \/ \E f \in Files : DeleteFile(f)
    \/ \E f \in Files : Add(f)
    \/ \E f \in Files : Remove(f)
    \/ CommitCmd
    \/ \E name \in BranchNames : Branch(name)
    \/ \E f \in Files, target \in {""} \cup CommitTargets : CheckoutFile(f, target)
    \/ \E target \in BranchNames \cup {FakeBranch} : CheckoutBranch(target)
    \/ \E target_id \in CommitTargets : Reset(target_id)
    \/ \E target \in BranchNames \cup {FakeBranch} : Merge(target)
    \/ NewRoot

Spec == Init /\ [][Next]_vars

(* ------------------- the line merge on its own ------------------------- *)
Lines == {A, B, C}
LineSeqs == UNION {[1..n -> Lines] : n \in 0..MaxLines}

InitLM ==
    /\ commits = [id \in {1} |-> Commit(NoCommit, "Initial commit.", NoCommit)]
    /\ branches = [b \in {"main"} |-> 1]
    /\ HEAD = "main"
    /\ additions = Empty
    /\ removals = {}
    /\ work = Empty
    /\ blobs = {}
    /\ out = [op |-> "init", arg |-> "", msg |-> "Initializing gitlepy repository.", err |-> ""]
    /\ edits = 0
    /\ lm \in [head : LineSeqs, target : LineSeqs, commit_id : {Digest[2]},
               result : {<<>>}, done : {FALSE}]

RunLineMerge ==
    /\ ~lm.done
    /\ lm' = [lm EXCEPT !.result = write_conflict(lm.head, lm.target, lm.commit_id),
                        !.done = TRUE]
    /\ UNCHANGED <<repo, out, edits>>

NextLM == RunLineMerge

SpecLM == InitLM /\ [][NextLM]_vars

(* --------------- add, commit and checkout of any bytes ----------------- *)
\* The working files hold any bytes, not only text with "\n" line ends:
\* add stores the bytes of the file, checkout_file reads the blob back in
\* text mode.
MaxEditsRT == 3
HiCRLF == "Hi\r\n"
ByteContents == {<<Hi>>, <<HiCRLF>>, <<Hi, Hello>>}

WriteBytes(f, c) ==
    /\ edits < MaxEditsRT
    /\ ~(f \in DOMAIN work /\ work[f] = c)
    /\ Do("edit", "", [St EXCEPT !.work = Put(work, f, c)])

CheckoutFileAt(f, target) ==
    /\ edits < MaxEditsRT
    /\ Do("checkout_file", <<f, target>>, checkout_file(St, f, target))

NextRT ==
    \/ \E f \in Files : \E c \in ByteContents : WriteBytes(f, c)
    \/ \E f \in Files : Add(f)
    \/ CommitCmd
    \/ \E f \in Files, target \in {""} \cup {Digest[i] : i \in 1..MaxCommits} :
          CheckoutFileAt(f, target)

SpecRT == Init /\ [][NextRT]_vars

(* ------------------- the index and the working files ------------------ *)
\* add, rm and commit between edits of the working files, with room for a
\* file to be written, staged, committed, changed, staged and changed back.
NextIndex ==
    \/ \E f \in Files : \E c \in ByteContents : WriteBytes(f, c)
    \/ \E f \in Files : DeleteFile(f)
    \/ \E f \in Files : Add(f)
    \/ \E f \in Files : Remove(f)
    \/ CommitCmd

SpecIndex == Init /\ [][NextIndex]_vars

(* ---------------------- merges of diverged branches -------------------- *)
\* Two branches that diverge after a commit that tracks files need that
\* commit, one commit on each branch and the merge commit on top of the
\* initial one, and three versions of working files.  The runs start
\* where the user has written "Hi\n" to both files of a new repository.
MaxCommitsMerge == 5
MaxEditsMerge == 3

InitMerge ==
    /\ commits = [id \in {1} |-> Commit(NoCommit, "Initial commit.", NoCommit)]
    /\ branches = [b \in {"main"} |-> 1]
    /\ HEAD = "main"
    /\ additions = Empty
    /\ removals = {}
    /\ work = [f \in Files |-> <<Hi>>]
    /\ blobs = {}
    /\ out = [op |-> "edit", arg |-> "", msg |-> "", err |-> ""]
    /\ edits = 2
    /\ lm = Empty

RoomMerge(r) == DOMAIN r.commits = DOMAIN commits \/ NextId(St) <= MaxCommitsMerge
StepMerge(op, arg, r) == RoomMerge(r) /\ Do(op, arg, r)

WriteFileMerge(f, c) ==
    /\ edits < MaxEditsMerge
    /\ ~(f \in DOMAIN work /\ work[f] = c)
    /\ Do("edit", "", [St EXCEPT !.work = Put(work, f, c)])

CommitMerge ==
    StepMerge("commit", "msg",
              IF HeadOk(St) THEN new_commit(St, head_commit_id(St), "msg", NoCommit)
              ELSE raise(St, "FileNotFoundError"))

MergeMerge(target) == StepMerge("merge", target, merge(St, target))

NextMerge ==
    \/ \E f \in Files : \E c \in EditContents(f) : WriteFileMerge(f, c)
    \/ \E f \in Files : Add(f)
    \/ \E f \in Files : Remove(f)
    \/ CommitMerge
    \/ \E name \in BranchNames : Branch(name)
    \/ \E target \in BranchNames : CheckoutBranch(target)
    \/ \E target \in BranchNames : MergeMerge(target)

SpecMerge == InitMerge /\ [][NextMerge]_vars

(* ---------------- the line merge, one pass at a time ------------------- *)
\* The files as opened by write_conflict, with the first line of each read.
open_files(head_file, target_blob, commit_id) ==
    read2(read1([f1 |-> head_file, f2 |-> target_blob, commit_id |-> commit_id,
                 pos1 |-> 0, pos2 |-> 0, seek1 |-> 0, seek2 |-> 0,
                 line1 |-> "", line2 |-> "", temp |-> <<>>, found |-> FALSE]))

\* One pass of "while line1 and line2": what main_loop does before it
\* goes round again.
search_once(m, match_byte) ==
    IF match_byte > 0 THEN matched_diff(m, match_byte) ELSE finish_diff(m)

scan_once(m) ==
    IF m.found THEN m
    ELSE search_once(rewind2(m), binsearch_lines(m.f1, m.pos1, m.f2, advance(m.f2, m.seek2)))

loop_body(m) ==
    IF m.line1 = m.line2 THEN next_lines(write(m, m.line1)) ELSE scan_once(scan_target(m))

InitWC ==
    /\ commits = [id \in {1} |-> Commit(NoCommit, "Initial commit.", NoCommit)]
    /\ branches = [b \in {"main"} |-> 1]
    /\ HEAD = "main"
    /\ additions = Empty
    /\ removals = {}
    /\ work = Empty
    /\ blobs = {}
    /\ out = [op |-> "init", arg |-> "", msg |-> "Initializing gitlepy repository.", err |-> ""]
    /\ edits = 0
    /\ lm \in {[m |-> open_files(h, t, Digest[2]), phase |-> "loop"] : h \in LineSeqs, t \in LineSeqs}

LoopPass ==
    /\ lm.phase = "loop"
    /\ lm.m.line1 # "" /\ lm.m.line2 # ""
    /\ lm' = [lm EXCEPT !.m = loop_body(lm.m)]
    /\ UNCHANGED <<repo, out, edits>>

CleanUp ==
    /\ lm.phase = "loop"
    /\ lm.m.line1 = "" \/ lm.m.line2 = ""
    /\ lm' = [m |-> trailing(lm.m), phase |-> "done"]
    /\ UNCHANGED <<repo, out, edits>>

NextWC == LoopPass \/ CleanUp

SpecWC == InitWC /\ [][NextWC]_vars

\* The passes end with what write_conflict writes.
PassesAgree ==
    lm.phase = "done" => lm.m.temp = write_conflict(lm.m.f1, lm.m.f2, lm.m.commit_id)

(* ------------- the line merge of files of any last line --------------- *)
\* Text files whose last line may lack its line terminator (the files of
\* tests/test_merge.py: a.txt = "Hello").  The result is the sequence of
\* the pieces written to the merged file.
NoFinalNewline(f) == [i \in DOMAIN f |-> IF i = Len(f) THEN NoNewline(f[i]) ELSE f[i]]
TextFiles == LineSeqs \cup {NoFinalNewline(f) : f \in LineSeqs}

InitText ==
    /\ commits = [id \in {1} |-> Commit(NoCommit, "Initial commit.", NoCommit)]
    /\ branches = [b \in {"main"} |-> 1]
    /\ HEAD = "main"
    /\ additions = Empty
    /\ removals = {}
    /\ work = Empty
    /\ blobs = {}
    /\ out = [op |-> "init", arg |-> "", msg |-> "Initializing gitlepy repository.", err |-> ""]
    /\ edits = 0
    /\ lm \in [head : TextFiles, target : TextFiles, commit_id : {Digest[2]},
               result : {<<>>}, done : {FALSE}]

SpecText == InitText /\ [][NextLM]_vars

(* --------------- the line merge, one iteration at a time --------------- *)
\* Every loop of write_conflict goes round once per step: pc names the
\* loop the function is in, scanned tells whether one of the two loops
\* that copy target lines up to a match has gone round.
InitSteps ==
    /\ commits = [id \in {1} |-> Commit(NoCommit, "Initial commit.", NoCommit)]
    /\ branches = [b \in {"main"} |-> 1]
    /\ HEAD = "main"
    /\ additions = Empty
    /\ removals = {}
    /\ work = Empty
    /\ blobs = {}
    /\ out = [op |-> "init", arg |-> "", msg |-> "Initializing gitlepy repository.", err |-> ""]
    /\ edits = 0
    /\ lm \in {[m |-> open_files(h, t, Digest[2]), pc |-> "top", scanned |-> FALSE] :
                 h \in LineSeqs, t \in LineSeqs}

Goto(m, pc) ==
    /\ \E n \in {m} : lm' = [lm EXCEPT !.m = n, !.pc = pc]
    /\ UNCHANGED <<repo, out, edits>>

\* while line1 and line2: if line1 == line2: ... else: skip = False
TopOfLoop ==
    /\ lm.pc = "top"
    /\ IF lm.m.line1 = "" \/ lm.m.line2 = "" THEN Goto(lm.m, "cleanup")
       ELSE IF lm.m.line1 = lm.m.line2 THEN Goto(next_lines(write(lm.m, lm.m.line1)), "top")
       ELSE Goto(lm.m, "scan")

\* temp.write(start_diff); f1.seek(seek1); temp.write(f1.read(match_byte - seek1));
\* temp.write(mid_diff); seek1 = f1.tell(); line1 = f1.readline()
matched_start(m, match_byte) ==
    read1([write(write_all(write(m, start_diff), SubSeq(m.f1, m.seek1 + 1, match_byte)), mid_diff)
              EXCEPT !.seek1 = match_byte, !.pos1 = match_byte])

\* The scan is over without a match: f2 is reset and the rest of f1 searched.
ScanOver(m, match_byte) ==
    IF match_byte > 0 THEN Goto(matched_start(m, match_byte), "to_match")
    ELSE Goto(finish_diff(m), "cleanup")

\* while line2: line2 = f2.readline(); if line1 == line2: ...
\* After the loop: f2.seek(seek2); line2 = f2.readline();
\* match_byte = self._binsearch_lines(f1, f2), which sorts the rest of f2
\* and searches it for each of the remaining lines of f1.
ScanStep ==
    /\ lm.pc = "scan"
    /\ IF lm.m.line2 = ""
       THEN \E sorted_f2 \in {sorted(readlines(lm.m.f2, advance(lm.m.f2, lm.m.seek2)))} :
            \E match_byte \in {binsearch_scan(lm.m.f1, lm.m.pos1, sorted_f2)} :
               ScanOver(rewind2(lm.m), match_byte)
       ELSE IF readline(lm.m.f2, lm.m.pos2) = lm.m.line1
       THEN Goto(write(write(rewind2(read2(lm.m)), start_diff), mid_diff), "insertion")
       ELSE Goto(read2(lm.m), "scan")

\* while line1 != line2: temp.write(line2); line2 = f2.readline()
\* temp.write(end_diff); skip = True; break; continue
InsertionStep ==
    /\ lm.pc = "insertion"
    /\ IF lm.m.line1 = lm.m.line2
       THEN Goto(write_end(lm.m), "top")
       ELSE /\ \E n \in {read2(write(lm.m, lm.m.line2))} :
                   lm' = [lm EXCEPT !.m = n, !.scanned = TRUE]
            /\ UNCHANGED <<repo, out, edits>>

\* while line1 != line2: temp.write(line2); seek2 = f2.tell(); line2 = f2.readline()
\* temp.write(end_diff); continue
ToMatchStep ==
    /\ lm.pc = "to_match"
    /\ IF lm.m.line1 = lm.m.line2
       THEN Goto(write_end(lm.m), "top")
       ELSE /\ \E n \in {read2([write(lm.m, lm.m.line2) EXCEPT !.seek2 = lm.m.pos2])} :
                   lm' = [lm EXCEPT !.m = n, !.scanned = TRUE]
            /\ UNCHANGED <<repo, out, edits>>

\* if line1: temp.write(line1) ... elif line2: temp.write(start_diff); ...
CleanUpStep ==
    /\ lm.pc = "cleanup"
    /\ IF lm.m.line1 # "" THEN Goto(write(lm.m, lm.m.line1), "trail_head")
       ELSE IF lm.m.line2 # ""
       THEN Goto(write(write(write(lm.m, start_diff), mid_diff), lm.m.line2), "trail_target")
       ELSE Goto(lm.m, "done")

\* while line1: line1 = f1.readline(); temp.write(line1)
TrailHeadStep ==
    /\ lm.pc = "trail_head"
    /\ IF lm.m.line1 = "" THEN Goto(lm.m, "done")
       ELSE Goto(write(read1(lm.m), readline(lm.m.f1, lm.m.pos1)), "trail_head")

\* while line2: line2 = f1.readline(); temp.write(line2)
\* temp.write(end_diff)
TrailTargetStep ==
    /\ lm.pc = "trail_target"
    /\ IF lm.m.line2 = "" THEN Goto(write_end(lm.m), "done")
       ELSE Goto(write([lm.m EXCEPT !.line2 = readline(lm.m.f1, lm.m.pos1),
                                    !.pos1 = advance(lm.m.f1, lm.m.pos1)],
                       readline(lm.m.f1, lm.m.pos1)), "trail_target")

NextSteps ==
    \/ TopOfLoop
    \/ ScanStep
    \/ InsertionStep
    \/ ToMatchStep
    \/ CleanUpStep
    \/ TrailHeadStep
    \/ TrailTargetStep

\* The function runs on: a loop that can go round does go round.
SpecSteps == InitSteps /\ [][NextSteps]_vars /\ WF_vars(NextSteps)

\* The iterations end with what write_conflict writes.
StepsAgree ==
    lm.pc = "done" => lm.m.temp = write_conflict(lm.m.f1, lm.m.f2, lm.m.commit_id)

(* ------------------- commit graphs of three branches ------------------- *)
\* Histories that cross: three branches, and room for a commit on each of
\* them after a common one, a merge of two of them and one more commit on
\* the third.  A change is made as tests/test_merge.py makes it: the file
\* is written, added and committed; one file with two contents is enough
\* to make every commit differ from its parent.
MaxCommitsGraph == 6
GraphBranches == BranchNames \cup {"topic"}
GraphFile == "a.txt"

CommitChange(f, c) ==
    /\ HeadOk(St)
    /\ NextId(St) <= MaxCommitsGraph
    /\ Do("commit", "msg",
          new_commit(add([St EXCEPT !.work = Put(work, f, c)], f),
                     head_commit_id(St), "msg", NoCommit))

MergeGraph(target) ==
    /\ NextId(St) <= MaxCommitsGraph
    /\ Do("merge", target, merge(St, target))

NextGraph ==
    \/ \E c \in EditContents(GraphFile) : CommitChange(GraphFile, c)
    \/ \E name \in GraphBranches : Branch(name)
    \/ \E target \in GraphBranches : CheckoutBranch(target)
    \/ \E target \in GraphBranches : MergeGraph(target)

SpecGraph == Init /\ [][NextGraph]_vars

(* ----------------------- vocabulary of the claims ---------------------- *)
Targets == BranchNames \cup {FakeBranch}

RECURSIVE Ancestors(_, _)
Ancestors(cs, id) ==
    IF id = NoCommit THEN {}
    ELSE {id} \cup Ancestors(cs, cs[id].parent_one) \cup Ancestors(cs, cs[id].parent_two)

HeadId == branches[HEAD]
HeadBlobs == commits[HeadId].blobs
Tracked(f) == f \in DOMAIN HeadBlobs
Staged(f) == f \in DOMAIN additions

UnstagedDeletion(f) ==
    (Tracked(f) \/ Staged(f)) /\ f \notin DOMAIN work /\ f \notin removals
UnstagedModification(f) ==
    /\ f \in DOMAIN work
    /\ \/ Staged(f) /\ work[f] # BlobContent(additions[f])
       \/ ~Staged(f) /\ Tracked(f) /\ work[f] # BlobContent(HeadBlobs[f])
UnstagedChanges == \E f \in Files : UnstagedDeletion(f) \/ UnstagedModification(f)
IndexClean == additions = Empty /\ removals = {}

\* merge(b) gets past _validate_merge.
PassesValidation(b) ==
    /\ HEAD \in DOMAIN branches
    /\ ~UnstagedChanges
    /\ IndexClean
    /\ b # HEAD
    /\ b \in DOMAIN branches

\* The step is merge(b).
MergeOf(b) == out'.op = "merge" /\ out'.arg = b

MsgUnstaged == "There is a file with unstaged changes; delete it, or add and commit it first."
MsgUncommitted == "You have uncommitted changes."
MsgSelf == "Cannot merge a branch with itself."
MsgNoBranch == "A branch with that name does not exist."
MsgAncestor == "Target branch is an ancestor of the current branch."
MsgFastForward == "Current branch is fast-forwarded."
MsgNoSplit == "No common ancestor found."
MsgConflict == "Encountered a merge conflict."

\* The merge was turned down: one of the validation reports, or the read
\* of the current branch's ref failed before anything was looked at.
Rejected(o) ==
    \/ o.msg \in {MsgUnstaged, MsgUncommitted, MsgSelf, MsgNoBranch} /\ o.err = ""
    \/ o.msg = "" /\ o.err = "FileNotFoundError"

NewCommits == (DOMAIN commits') \ (DOMAIN commits)

(* ------------------------------- claims -------------------------------- *)

\* C1: fast-forward.  When merge(b) passes validation, the current head is
\* in the history of b's head and b's head is not in the current head's
\* history, the merge ends with the current branch pointing to b's head,
\* HEAD naming the same branch, the stored commits unchanged, and every
\* file tracked by b's head in the working directory with its blob content.
FastForwardCase(b) ==
    /\ PassesValidation(b)
    /\ HeadId \in Ancestors(commits, branches[b])
    /\ branches[b] \notin Ancestors(commits, HeadId)

AncestorCase(b) ==
    PassesValidation(b) /\ branches[b] \in Ancestors(commits, HeadId)

C2_AncestorNoOp ==
    [][\A b \in Targets : (MergeOf(b) /\ AncestorCase(b)) =>
          out'.msg = MsgAncestor /\ out'.err = "" /\ UNCHANGED repo
      ]_vars

C2_Witness ==
    /\ out.op = "merge" /\ out.msg = MsgAncestor
    /\ HEAD \in DOMAIN branches /\ out.arg \in DOMAIN branches
    /\ branches[out.arg] # HeadId
    /\ branches[out.arg] \in Ancestors(commits, HeadId)

\* C3: from any reachable state, merge(b) with b the current branch or b not
\* an existing branch is rejected and leaves index, working files, stored
\* commits, branch pointers and HEAD unchanged.
C3_SelfOrUnknownRejected ==
    [][\A b \in Targets : (MergeOf(b) /\ (b = HEAD \/ b \notin DOMAIN branches)) =>
          Rejected(out') /\ UNCHANGED repo
      ]_vars

C3_Witness ==
    /\ out.op = "merge" /\ out.msg = MsgNoBranch
    /\ out.arg \notin DOMAIN branches
    /\ Cardinality(DOMAIN commits) > 1

\* C4: merge(b) is rejected with no state change whenever the index holds a
\* staged addition or removal (reported as uncommitted changes) or a tracked
\* or staged file has an unstaged modification or deletion; no commit is
\* created and no branch pointer moves.  When both hold the report is the
\* one about unstaged changes, which the code checks first.
C4_DirtyRejected ==
    [][\A b \in Targets : (MergeOf(b) /\ (~IndexClean \/ (HEAD \in DOMAIN branches /\ UnstagedChanges))) =>
          /\ Rejected(out')
          /\ UNCHANGED repo
          /\ (HEAD \in DOMAIN branches /\ UnstagedChanges) => out'.msg = MsgUnstaged
          /\ (HEAD \in DOMAIN branches /\ ~UnstagedChanges) => out'.msg = MsgUncommitted
      ]_vars

C4_Witness ==
    /\ out.op = "merge" /\ out.msg = MsgUncommitted
    /\ removals # {} /\ additions # Empty
    /\ out.arg \in DOMAIN branches /\ out.arg # HEAD

C4_WitnessUnstaged ==
    /\ out.op = "merge" /\ out.msg = MsgUnstaged
    /\ IndexClean
    /\ \E f \in Files : UnstagedDeletion(f)

\* C5 (as claimed): when merge(b) passes validation, a common ancestor
\* exists, neither head is in the other's history and the per-file
\* comparison finds no conflict, the merge ends with exactly one new commit
\* whose parents are the previous head and b's head, and the current branch
\* points to it.
DivergedCase(b) ==
    /\ PassesValidation(b)
    /\ Ancestors(commits, HeadId) \cap Ancestors(commits, branches[b]) # {}
    /\ HeadId \notin Ancestors(commits, branches[b])
    /\ branches[b] \notin Ancestors(commits, HeadId)

Conflicts(b) ==
    prepare_merge(St, branches[b],
                  find_split(history(St, HeadId), history(St, branches[b]))).conflicts

MergeCommitCreated(b) ==
    /\ Cardinality(NewCommits) = 1
    /\ \A c \in NewCommits :
          /\ commits'[c].parent_one = HeadId
          /\ commits'[c].parent_two = branches[b]
          /\ branches'[HEAD] = c
    /\ HEAD' = HEAD

C5_CleanMergeCommits ==
    [][\A b \in Targets : (MergeOf(b) /\ DivergedCase(b) /\ Conflicts(b) = {}) =>
          MergeCommitCreated(b)
      ]_vars

\* C6 (as claimed): when the per-file comparison of merge(b) reports a
\* conflicted file, the merge ends with a new two-parent commit on the
\* current branch that maps every conflicted file to the blob of the
\* content written to the working file.
C6_ConflictedMergeCommits ==
    [][\A b \in Targets : (MergeOf(b) /\ DivergedCase(b) /\ Conflicts(b) # {}) =>
          /\ MergeCommitCreated(b)
          /\ \A c \in NewCommits : \A f \in Conflicts(b) :
                /\ f \in DOMAIN work' /\ f \in DOMAIN commits'[c].blobs
                /\ commits'[c].blobs[f] = BlobId(work'[f])
      ]_vars

\* C7 (as claimed): every commit created by merge(target) on the branch
\* current has the message "Merged <target> into <current>".
C7_MergeMessage ==
    [][\A b \in Targets : MergeOf(b) =>
          \A c \in NewCommits : commits'[c].message = "Merged " \o b \o " into " \o HEAD
      ]_vars

\* C8: for non-empty head and target line sequences with no line in common,
\* the line merge writes exactly one conflict block: the head marker, the
\* head lines, the separator, the target lines, and the end marker naming
\* the target commit id.
NoCommonLine(h, t) == Range(h) \cap Range(t) = {}

C8_ConflictBlock ==
    (lm # Empty /\ lm.done /\ lm.head # <<>> /\ lm.target # <<>>
        /\ NoCommonLine(lm.head, lm.target))
    => lm.result = <<"<<<<<<< HEAD\n">> \o lm.head \o <<"=======\n">> \o lm.target
                     \o <<">>>>>>> " \o lm.commit_id \o "\n">>

C8_Witness ==
    /\ lm # Empty /\ lm.done
    /\ Len(lm.head) = 2 /\ Len(lm.target) = 3 /\ lm.head[1] # lm.head[2]
    /\ NoCommonLine(lm.head, lm.target)
    /\ Len(lm.result) = 8

\* C9 (as claimed): every file that is untracked before merge(b) (in the
\* working directory, not tracked by the current head, not staged) still
\* exists with the same content after the merge.
UntrackedBefore(f) == f \in DOMAIN work /\ ~Tracked(f) /\ ~Staged(f)

C9_UntrackedKept ==
    [][\A b \in Targets : (MergeOf(b) /\ HEAD \in DOMAIN branches) =>
          \A f \in Files : UntrackedBefore(f) => (f \in DOMAIN work' /\ work'[f] = work[f])
      ]_vars

\* C10: when the histories of the current head and of the target's head
\* share no commit, merge reports "No common ancestor found." and leaves
\* commits, branch pointers, HEAD, index and working files unchanged.
C10_NoCommonAncestor ==
    [][\A b \in Targets :
          (MergeOf(b) /\ PassesValidation(b)
             /\ Ancestors(commits, HeadId) \cap Ancestors(commits, branches[b]) = {}) =>
          out'.msg = MsgNoSplit /\ out'.err = "" /\ UNCHANGED repo
      ]_vars

C10_Witness ==
    /\ out.op = "merge" /\ out.msg = MsgNoSplit
    /\ HEAD \in DOMAIN branches /\ out.arg \in DOMAIN branches
    /\ Ancestors(commits, HeadId) \cap Ancestors(commits, branches[out.arg]) = {}

\* The step is the command op with the argument arg.
StepOf(op, arg) == out'.op = op /\ out'.arg = arg

MsgNothingStaged == "No changes staged for commit."

\* C12: a successful commit with a parent creates one commit whose blobs
\* are the parent's with every staged removal deleted and every staged
\* addition applied, whose first parent is the previous head; afterwards
\* the current branch points to it and the index is empty.
C12_CommitBlobs ==
    [][(out'.op = "commit" /\ NewCommits # {}) =>
          /\ Cardinality(NewCommits) = 1
          /\ \A c \in NewCommits :
                /\ commits'[c].parent_one = HeadId
                /\ DOMAIN commits'[c].blobs = ((DOMAIN HeadBlobs) \ removals) \cup DOMAIN additions
                /\ \A f \in DOMAIN commits'[c].blobs :
                      commits'[c].blobs[f] = IF f \in DOMAIN additions THEN additions[f]
                                             ELSE HeadBlobs[f]
                /\ branches'[HEAD] = c
          /\ HEAD' = HEAD
          /\ additions' = Empty /\ removals' = {}
          /\ \A c \in DOMAIN commits : commits'[c] = commits[c]
      ]_vars

\* A commit was made from an index with an addition and a removal.
C12_Witness ==
    /\ out.op = "commit" /\ out.err = "" /\ IndexClean
    /\ HEAD \in DOMAIN branches
    /\ commits[HeadId].parent_one # NoCommit
    /\ LET p == commits[commits[HeadId].parent_one].blobs
       IN  /\ \E f \in Files : f \in DOMAIN p /\ f \notin DOMAIN HeadBlobs
           /\ \E f \in Files : f \notin DOMAIN p /\ f \in DOMAIN HeadBlobs

\* C13: commit with an index without additions and removals fails with
\* "No changes staged for commit." and leaves commits, branch pointers,
\* HEAD and the index unchanged.
C13_NothingStaged ==
    [][(out'.op = "commit" /\ HEAD \in DOMAIN branches /\ IndexClean) =>
          /\ out'.msg = MsgNothingStaged /\ out'.err = "SystemExit"
          /\ UNCHANGED <<commits, branches, HEAD, additions, removals>>
      ]_vars

C13_Witness ==
    /\ out.op = "commit" /\ out.msg = MsgNothingStaged /\ out.err = "SystemExit"
    /\ IndexClean /\ Cardinality(DOMAIN commits) > 1

\* C14: no filename is both a staged addition and staged for removal.
C14_IndexDisjoint == (DOMAIN additions) \cap removals = {}

\* A file was staged while another one is marked for removal.
C14_Witness ==
    /\ out.op = "add" /\ out.arg \in DOMAIN additions
    /\ removals # {}

\* C15: every branch reference holds the id of a stored commit.
C15_NoDanglingBranch == \A b \in DOMAIN branches : branches[b] \in DOMAIN commits

C15_Witness ==
    /\ out.op = "reset" /\ out.err = "" /\ out.msg = ""
    /\ HEAD \in DOMAIN branches
    /\ Cardinality(DOMAIN commits) > 2 /\ HeadId = 1
    /\ \E b \in DOMAIN branches : branches[b] # 1

\* C16 (as claimed): checkout_branch(name) with a name that is not an
\* existing branch leaves HEAD naming the current branch and the index,
\* the branch pointers and the working files unchanged.
C16_CheckoutUnknownBranch ==
    [][\A b \in Targets :
          (StepOf("checkout_branch", b) /\ HEAD \in DOMAIN branches /\ b \notin DOMAIN branches) =>
          HEAD' = HEAD /\ UNCHANGED <<additions, removals, branches, work>>
      ]_vars

\* The working directory agrees with commit to, and no file that only
\* commit from tracks is left.
Synced(from, to) ==
    /\ \A f \in DOMAIN commits[to].blobs :
          f \in DOMAIN work' /\ work'[f] = BlobContent(commits[to].blobs[f])
    /\ \A f \in (DOMAIN commits[from].blobs) \ (DOMAIN commits[to].blobs) : f \notin DOMAIN work'

\* C17 (as claimed): checkout_branch(name) of an existing branch other
\* than the current one, without unstaged modifications, ends with HEAD
\* naming that branch, the index empty, every file of the target head in
\* the working directory with its blob content and every file only the
\* previous head tracks absent.
C17_CheckoutBranchSyncs ==
    [][\A b \in Targets :
          (StepOf("checkout_branch", b) /\ HEAD \in DOMAIN branches /\ b \in DOMAIN branches
             /\ b # HEAD /\ ~UnstagedChanges) =>
          /\ HEAD' = b
          /\ additions' = Empty /\ removals' = {}
          /\ Synced(HeadId, branches[b])
      ]_vars

MsgInTheWay == "There are unstaged modifications in the way; stage and commit them."

\* C18: checkout_branch(name) of an existing branch other than the current
\* one while an unstaged modification or deletion exists is rejected and
\* leaves HEAD, the branch pointers, the index and the working files
\* unchanged.
C18_CheckoutBranchRejected ==
    [][\A b \in Targets :
          (StepOf("checkout_branch", b) /\ HEAD \in DOMAIN branches /\ b \in DOMAIN branches
             /\ b # HEAD /\ UnstagedChanges) =>
          out'.msg = MsgInTheWay /\ out'.err = "" /\ UNCHANGED repo
      ]_vars

C18_Witness ==
    /\ out.op = "checkout_branch" /\ out.msg = MsgInTheWay
    /\ out.arg \in DOMAIN branches /\ out.arg # HEAD
    /\ \E f \in Files : UnstagedModification(f) /\ Staged(f)

\* C19 (as claimed): reset(id) with an id that resolves to a stored commit
\* ends with HEAD naming the same branch, that branch pointing to the
\* commit, the index empty, every file of the commit in the working
\* directory with its blob content and every file only the previous head
\* tracks absent.
C19_ResetSyncs ==
    [][\A t \in CommitTargets :
          (StepOf("reset", t) /\ HEAD \in DOMAIN branches
             /\ match_commit_id(St, t) \in DOMAIN commits) =>
          /\ HEAD' = HEAD
          /\ branches'[HEAD] = match_commit_id(St, t)
          /\ additions' = Empty /\ removals' = {}
          /\ Synced(HeadId, match_commit_id(St, t))
      ]_vars

\* The stored commits whose id starts with the abbreviation t.
Matches(t) == {id \in DOMAIN commits : Prefix[id] = t}
MsgNoCommit == "No commit with that id exists."
MsgAmbiguous == "Ambiguous commit abbreviation."

\* C20: an abbreviation resolves to a stored commit id iff exactly one
\* stored id starts with it; with no match the id is reported invalid,
\* with several the abbreviation is reported ambiguous, and in both cases
\* reset changes no branch pointer, index entry or working file.
C20_Resolution ==
    [][\A t \in Abbreviations :
          /\ match_commit_id(St, t) =
                IF Cardinality(Matches(t)) = 1 THEN CHOOSE id \in Matches(t) : TRUE
                ELSE IF Matches(t) = {} THEN NoCommit ELSE Ambiguous
          /\ (StepOf("reset", t) /\ Matches(t) = {}) =>
                out'.msg = MsgNoCommit /\ out'.err = "" /\ UNCHANGED repo
          /\ (StepOf("reset", t) /\ Cardinality(Matches(t)) > 1) =>
                out'.msg = MsgAmbiguous /\ out'.err = "SystemExit" /\ UNCHANGED repo
      ]_vars

C20_Witness ==
    /\ out.op = "reset" /\ out.arg = "a" /\ out.msg = MsgAmbiguous
    /\ Cardinality(Matches("a")) = 2 /\ Cardinality(Matches("b")) = 1

\* Commit K records a version of f that its parent does not have: the
\* commit made by add(f) and commit right after it.
Committed(f, K) ==
    /\ f \in DOMAIN commits[K].blobs
    /\ commits[K].parent_one # NoCommit
    /\ LET p == commits[commits[K].parent_one].blobs
       IN  f \notin DOMAIN p \/ p[f] # commits[K].blobs[f]

\* C11 (as claimed): add(f) of a file with content c, followed at once by
\* commit, creates a commit K that records c for f, and after any later
\* edits checkout_file(f, K) makes the content of the working file c again.
C11_RoundTrip ==
    [][\A f \in Files :
          /\ (out.op = "add" /\ out.arg = f /\ f \in DOMAIN additions
                 /\ out'.op = "commit" /\ NewCommits # {}) =>
                \A K \in NewCommits : Committed(f, K)' /\ BlobContent(commits'[K].blobs[f]) = work[f]
          /\ \A K \in DOMAIN commits :
                (StepOf("checkout_file", <<f, Digest[K]>>) /\ Committed(f, K)) =>
                f \in DOMAIN work' /\ work'[f] = BlobContent(commits[K].blobs[f])
      ]_vars
\* C21: the history of every stored commit is computed (the enumeration
\* ends), lists no commit id twice, starts with the commit and lists
\* exactly the commits reachable from it through first or second parents.
C21_History ==
    \A id \in DOMAIN commits :
        /\ Range(history(St, id)) = Ancestors(commits, id)
        /\ Len(history(St, id)) = Cardinality(Ancestors(commits, id))
        /\ history(St, id)[1] = id

\* A merge commit whose two parents share an ancestor: that ancestor is
\* put in the queue twice.
C21_Witness ==
    \E id \in DOMAIN commits :
        /\ commits[id].parent_two # NoCommit
        /\ commits[id].parent_one # commits[id].parent_two
        /\ Ancestors(commits, commits[id].parent_one)
              \cap Ancestors(commits, commits[id].parent_two) # {}
\* C22: whenever the current branch has a head commit, a working file
\* that is neither tracked by it nor staged for addition is in the
\* untracked set, so is a working file that is staged for removal, and a
\* file that is tracked or staged for addition and not staged for removal
\* is not in it.
C22_Untracked ==
    HEAD \in DOMAIN branches =>
        \A f \in Files :
            /\ (f \in DOMAIN work /\ ~Tracked(f) /\ ~Staged(f)) => f \in untracked_files(St)
            /\ (f \in DOMAIN work /\ f \in removals) => f \in untracked_files(St)
            /\ ((Tracked(f) \/ Staged(f)) /\ f \notin removals) => f \notin untracked_files(St)

\* A tracked file was removed and written again.
C22_Witness ==
    /\ HEAD \in DOMAIN branches
    /\ out.op = "edit"
    /\ \E f \in Files : Tracked(f) /\ f \in removals /\ f \in DOMAIN work
                          /\ f \in untracked_files(St)
\* The repository part of a state record.
RepoOf(s) == <<s.commits, s.branches, s.HEAD, s.additions, s.removals, s.work, s.blobs>>

\* C23: add(f) of a working file whose content hashes to the blob id the
\* current head tracks for f leaves f out of the staged additions;
\* otherwise it leaves f staged with exactly that hash and the blob of that
\* id and content stored.  A second add(f) right after changes nothing.
C23_AddPost ==
    [][\A f \in Files :
          (StepOf("add", f) /\ HEAD \in DOMAIN branches) =>
             /\ IF Tracked(f) /\ HeadBlobs[f] = BlobId(work[f])
                THEN f \notin DOMAIN additions'
                ELSE /\ f \in DOMAIN additions'
                     /\ additions'[f] = BlobId(work[f])
                     /\ BlobId(work[f]) \in blobs'
                     /\ BlobContent(additions'[f]) = work'[f]
             /\ repo' = RepoOf(add(St, f))
             /\ RepoOf(add(add(St, f), f)) = RepoOf(add(St, f))
      ]_vars

\* A tracked file was changed, staged, changed back and added again: the
\* last add took it out of the staged additions.
C23_Witness ==
    /\ out.op = "add" /\ out.msg = "" /\ out.err = ""
    /\ HEAD \in DOMAIN branches
    /\ Tracked(out.arg) /\ ~Staged(out.arg)
    /\ out.arg \in DOMAIN work /\ HeadBlobs[out.arg] = BlobId(work[out.arg])
    /\ Cardinality(blobs) > 1

\* A tracked file was changed and staged.
C23_WitnessStaged ==
    /\ out.op = "add" /\ out.msg = "" /\ out.err = ""
    /\ HEAD \in DOMAIN branches
    /\ Tracked(out.arg) /\ Staged(out.arg)
    /\ additions[out.arg] # HeadBlobs[out.arg]
    /\ additions[out.arg] \in blobs
MsgAlreadyRemoved == "That file is already staged for removal."

\* What remove(f) does to a file that is not yet marked for removal.
RemoveEffect(f) ==
    IF Staged(f)
    THEN /\ additions' = Drop(additions, {f})
         /\ UNCHANGED <<commits, branches, HEAD, removals, work, blobs>>
    ELSE IF Tracked(f)
    THEN /\ f \in removals' /\ f \notin DOMAIN work'
         /\ removals' = removals \cup {f} /\ work' = Drop(work, {f})
         /\ UNCHANGED <<commits, branches, HEAD, additions, blobs>>
    ELSE UNCHANGED repo

\* C24 (as claimed): remove(f) takes a staged addition out of the index
\* and changes nothing else; otherwise, for a file the current head
\* tracks, it ends with f marked for removal and the working file absent;
\* otherwise it leaves the index and the working files unchanged.
C24_Remove ==
    [][\A f \in Files : (StepOf("remove", f) /\ HEAD \in DOMAIN branches) => RemoveEffect(f)]_vars

\* C24 (amended): remove(f) of a file already marked for removal reports
\* that and changes nothing, a working file written again included;
\* on any other file it does what C24 says.
C24_RemoveAmended ==
    [][\A f \in Files :
          (StepOf("remove", f) /\ HEAD \in DOMAIN branches) =>
             IF f \in removals
             THEN out'.msg = MsgAlreadyRemoved /\ out'.err = "" /\ UNCHANGED repo
             ELSE RemoveEffect(f)
      ]_vars

\* A tracked file was removed and written again, and remove was run on it
\* once more.
C24_Witness ==
    /\ out.op = "remove" /\ out.msg = MsgAlreadyRemoved /\ out.err = ""
    /\ HEAD \in DOMAIN branches
    /\ Tracked(out.arg) /\ out.arg \in removals /\ out.arg \in DOMAIN work
\* C25: no step takes a blob id or a commit id out of the store, and no
\* step changes the message, the parents or the blobs of a stored commit.
C25_AppendOnly ==
    [][/\ blobs \subseteq blobs'
       /\ DOMAIN commits \subseteq DOMAIN commits'
       /\ \A c \in DOMAIN commits :
             /\ commits'[c].message = commits[c].message
             /\ commits'[c].parent_one = commits[c].parent_one
             /\ commits'[c].parent_two = commits[c].parent_two
             /\ commits'[c].blobs = commits[c].blobs
      ]_vars

\* A commit was just built from a parent that tracks files, with other
\* blobs than the parent's.
C25_Witness ==
    /\ out.op = "commit" /\ out.err = ""
    /\ HEAD \in DOMAIN branches
    /\ commits[HeadId].parent_one # NoCommit
    /\ commits[commits[HeadId].parent_one].blobs # Empty
    /\ commits[commits[HeadId].parent_one].blobs # HeadBlobs
    /\ Cardinality(blobs) > 1
\* The blobs of the commit _find_split returns for merge(b).
SplitBlobs(b) ==
    commits[find_split(history(St, HeadId), history(St, branches[b]))].blobs
TargetBlobs(b) == commits[branches[b]].blobs

\* f is tracked by head, target and split, unchanged in head and changed
\* in target since the split.
TargetOnlyChange(b, f) ==
    /\ f \in DOMAIN HeadBlobs /\ f \in DOMAIN TargetBlobs(b) /\ f \in DOMAIN SplitBlobs(b)
    /\ HeadBlobs[f] = SplitBlobs(b)[f]
    /\ TargetBlobs(b)[f] # SplitBlobs(b)[f]

\* C26 (as claimed): a three-way merge of b ends, for every file changed
\* only in the target since the split, with a merge commit that maps the
\* file to the target's blob and with the working file holding the
\* content of that blob.
C26_TargetOnlyChange ==
    [][\A b \in Targets : (MergeOf(b) /\ DivergedCase(b)) =>
          \A f \in Files : TargetOnlyChange(b, f) =>
             /\ NewCommits # {}
             /\ \A c \in NewCommits :
                   f \in DOMAIN commits'[c].blobs /\ commits'[c].blobs[f] = TargetBlobs(b)[f]
             /\ f \in DOMAIN work' /\ work'[f] = BlobContent(TargetBlobs(b)[f])
      ]_vars
\* f is tracked by head and split and not by the target.
DeletedInTarget(b, f) ==
    f \in DOMAIN HeadBlobs /\ f \in DOMAIN SplitBlobs(b) /\ f \notin DOMAIN TargetBlobs(b)

\* C27: a three-way merge of b ends, for every file the target deleted
\* and the head left as it was at the split, with a merge commit that does
\* not track the file and without the working file; a file the target
\* deleted and the head changed since the split stays tracked by the
\* current branch's head with the head's blob.
C27_DeletedInTarget ==
    [][\A b \in Targets : (MergeOf(b) /\ DivergedCase(b)) =>
          \A f \in Files : DeletedInTarget(b, f) =>
             IF HeadBlobs[f] = SplitBlobs(b)[f]
             THEN /\ NewCommits # {}
                  /\ \A c \in NewCommits :
                        f \notin DOMAIN commits'[c].blobs /\ branches'[HEAD'] = c
                  /\ f \notin DOMAIN work'
             ELSE /\ f \in DOMAIN commits'[branches'[HEAD']].blobs
                  /\ commits'[branches'[HEAD']].blobs[f] = HeadBlobs[f]
      ]_vars

\* A merge commit that dropped a file its first parent tracks and its
\* second parent does not.
C27_Witness ==
    /\ out.op = "merge" /\ out.err = ""
    /\ HEAD \in DOMAIN branches
    /\ commits[HeadId].parent_two # NoCommit
    /\ \E f \in Files :
          /\ f \in DOMAIN commits[commits[HeadId].parent_one].blobs
          /\ f \notin DOMAIN commits[commits[HeadId].parent_two].blobs
          /\ f \notin DOMAIN HeadBlobs
          /\ f \notin DOMAIN work

\* The target deleted a file that the head changed, and the merge kept it.
C27_WitnessKept ==
    /\ out.op = "merge" /\ out.arg \in DOMAIN branches
    /\ HEAD \in DOMAIN branches /\ out.arg # HEAD
    /\ out.msg \notin {MsgAncestor, MsgFastForward, MsgUnstaged, MsgUncommitted}
    /\ \E f \in Files :
          /\ f \in DOMAIN HeadBlobs /\ f \notin DOMAIN commits[branches[out.arg]].blobs
          /\ \E s \in Ancestors(commits, HeadId) \cap Ancestors(commits, branches[out.arg]) :
                f \in DOMAIN commits[s].blobs /\ commits[s].blobs[f] # HeadBlobs[f]
\* h is a proper prefix of t.
ProperPrefix(h, t) == Len(h) < Len(t) /\ SubSeq(t, 1, Len(h)) = h

\* C28 (as claimed): when the head lines are a proper prefix of the target
\* lines, the line merge writes the head lines and then one conflict
\* block with an empty head side and all remaining target lines, in order.
C28_TrailingTarget ==
    (lm # Empty /\ lm.done /\ ProperPrefix(lm.head, lm.target))
    => lm.result = lm.head \o <<start_diff, mid_diff>>
                     \o SubSeq(lm.target, Len(lm.head) + 1, Len(lm.target))
                     \o <<end_diff(lm.commit_id)>>
\* A pass of the line merge starts at a mismatch: both files have a
\* current line and the two differ.  The current lines are f1[pos1] and
\* f2[pos2].
Mismatch == lm.phase = "loop" /\ lm.m.line1 # "" /\ lm.m.line2 # "" /\ lm.m.line1 # lm.m.line2
\* Where the current head line occurs later in the target.
LaterInTarget == {j \in (lm.m.pos2 + 1)..Len(lm.m.f2) : lm.m.f2[j] = lm.m.line1}
Min(S) == CHOOSE x \in S : \A y \in S : x <= y
Block(head_side, target_side) ==
    <<start_diff>> \o head_side \o <<mid_diff>> \o target_side \o <<end_diff(lm.m.commit_id)>>

\* C29: at a mismatch where the current head line occurs later in the
\* target, the pass writes one conflict block with an empty head side and,
\* as target side, the target lines from the current one up to the first
\* later occurrence of the head line, and the next pass starts with the
\* head line and that occurrence as current lines.
C29_Insertion ==
    [][(Mismatch /\ LaterInTarget # {}) =>
          /\ lm'.m.temp = lm.m.temp
                \o Block(<<>>, SubSeq(lm.m.f2, lm.m.pos2, Min(LaterInTarget) - 1))
          /\ lm'.phase = "loop"
          /\ lm'.m.line1 = lm.m.line1 /\ lm'.m.pos1 = lm.m.pos1
          /\ lm'.m.line2 = lm.m.line1 /\ lm'.m.pos2 = Min(LaterInTarget)
      ]_vars

\* After one copied line, an insertion of two target lines was written.
C29_Witness ==
    /\ lm.phase = "loop" /\ lm.m.line1 = lm.m.line2 /\ lm.m.line1 # ""
    /\ lm.m.pos1 = 1 /\ lm.m.pos2 = 3
    /\ Len(lm.m.temp) = 5
    /\ lm.m.temp = Block(<<>>, SubSeq(lm.m.f2, 1, 2))

\* The head lines from the current one on that equal a target line from
\* the current one on.
Realign == {i \in lm.m.pos1..Len(lm.m.f1) :
               \E j \in lm.m.pos2..Len(lm.m.f2) : lm.m.f1[i] = lm.m.f2[j]}
MatchOf(i) == Min({j \in lm.m.pos2..Len(lm.m.f2) : lm.m.f2[j] = lm.m.f1[i]})

\* C30 (as claimed): at a mismatch where the current head line does not
\* occur later in the target, the pass writes the last block, all
\* remaining head lines against all remaining target lines, only if no
\* remaining head line equals a remaining target line, the current target
\* line included; otherwise it writes a block with the head lines before
\* the first such head line and the target lines before its match, and the
\* next pass starts at that head line and its match.
C30_Realignment ==
    [][(Mismatch /\ LaterInTarget = {}) =>
          IF Realign = {}
          THEN /\ lm'.m.temp = lm.m.temp
                     \o Block(SubSeq(lm.m.f1, lm.m.pos1, Len(lm.m.f1)),
                              SubSeq(lm.m.f2, lm.m.pos2, Len(lm.m.f2)))
               /\ lm'.m.line1 = "" /\ lm'.m.line2 = ""
          ELSE /\ lm'.m.temp = lm.m.temp
                     \o Block(SubSeq(lm.m.f1, lm.m.pos1, Min(Realign) - 1),
                              SubSeq(lm.m.f2, lm.m.pos2, MatchOf(Min(Realign)) - 1))
               /\ lm'.m.line1 = lm.m.f1[Min(Realign)] /\ lm'.m.pos1 = Min(Realign)
               /\ lm'.m.line2 = lm.m.f1[Min(Realign)] /\ lm'.m.pos2 = MatchOf(Min(Realign))
      ]_vars

\* C31 (as claimed): whenever merge(b) would reach the search for the split
\* point (it passes validation and neither head is in the other's history),
\* the commit found for the two histories is in both of them and no other
\* commit that is in both has it among its proper ancestors.
CommonAncestors(b) == Ancestors(commits, HeadId) \cap Ancestors(commits, branches[b])
SplitOf(b) == find_split(history(St, HeadId), history(St, branches[b]))

C31_MostRecentSplit ==
    \A b \in DOMAIN branches :
        DivergedCase(b) =>
            /\ SplitOf(b) \in CommonAncestors(b)
            /\ \A c \in CommonAncestors(b) \ {SplitOf(b)} :
                   SplitOf(b) \notin Ancestors(commits, c)

\* C32: for every pair of head and target line sequences the line merge
\* comes to its end, and whenever one of the two loops that copy target
\* lines up to a line equal to the head's current line is running, that
\* line is the target's current line or lies ahead of it in the target.
MatchAhead ==
    lm.m.line1 \in {lm.m.line2} \cup Range(readlines(lm.m.f2, lm.m.pos2))

RECURSIVE HeadSide(_, _, _)
HeadSide(text, commit_id, in_target) ==
    IF text = <<>> THEN <<>>
    ELSE IF Head(text) = start_diff THEN HeadSide(Tail(text), commit_id, FALSE)
    ELSE IF Head(text) = mid_diff THEN HeadSide(Tail(text), commit_id, TRUE)
    ELSE IF Head(text) = end_diff(commit_id) THEN HeadSide(Tail(text), commit_id, FALSE)
    ELSE IF in_target THEN HeadSide(Tail(text), commit_id, TRUE)
    ELSE <<Head(text)>> \o HeadSide(Tail(text), commit_id, FALSE)

\* C33: the merged file without its marker lines and without the target
\* sides of its conflict blocks is the head file, line for line.
C33_HeadKept ==
    lm.done => HeadSide(lm.result, lm.commit_id, FALSE) = lm.head

\* A merge that wrote a conflict block with lines on both sides after a
\* common line, of a head file whose last line has no line terminator.
C33_Witness ==
    /\ lm.done
    /\ lm.head # <<>> /\ lm.target # <<>>
    /\ lm.head[1] = lm.target[1]
    /\ lm.head[Len(lm.head)] \notin Lines
    /\ \E i \in DOMAIN lm.result :
          /\ i + 2 \in DOMAIN lm.result
          /\ lm.result[i] = start_diff
          /\ lm.result[i + 1] = lm.head[Len(lm.head)]
          /\ lm.result[i + 2] = mid_diff

\* C34 (as claimed): when merge(b) creates a commit, every file that commit
\* tracks is in the working directory after the merge.
C34_TrackedFilesExist ==
    [][\A b \in BranchNames : MergeOf(b) =>
          \A c \in NewCommits : \A f \in DOMAIN commits'[c].blobs : f \in DOMAIN work'
      ]_vars

\* C35: add, remove and checkout_file leave every branch pointer as it
\* was; commit, reset and merge leave HEAD and the pointer of every branch
\* but the current one as they were and create no branch; checkout_branch
\* leaves every branch pointer as it was.
OtherPointersKept ==
    /\ \A b \in (DOMAIN branches) \ {HEAD} : b \in DOMAIN branches' /\ branches'[b] = branches[b]
    /\ DOMAIN branches' = DOMAIN branches
    /\ HEAD' = HEAD

C35_OtherBranchesKept ==
    [][/\ out'.op \in {"add", "remove", "checkout_file", "checkout_branch"} => branches' = branches
       /\ out'.op \in {"commit", "reset", "merge"} => OtherPointersKept
      ]_vars

\* A merge commit on the current branch whose second parent is still the
\* head of the merged branch.
C35_Witness ==
    /\ out.op = "merge" /\ out.err = ""
    /\ HEAD \in DOMAIN branches /\ out.arg \in DOMAIN branches /\ out.arg # HEAD
    /\ commits[branches[HEAD]].parent_two = branches[out.arg]
    /\ branches[out.arg] # branches[HEAD]

\* A fast-forward: the current branch has moved to the head of the merged
\* branch.
C35_WitnessFastForward ==
    /\ out.op = "merge" /\ out.msg = MsgFastForward
    /\ HEAD \in DOMAIN branches /\ out.arg \in DOMAIN branches /\ out.arg # HEAD
    /\ branches[out.arg] = branches[HEAD]
====
